---- MODULE Spec2Model ----
(***************************************************************************)
(* State-machine model of backprop/models/generic_models.py:               *)
(*   - Finetunable.finetune, the finetuning lifecycle (split, batch-size   *)
(*     probe, trainer configuration, fit, cleanup), stepped by phase;      *)
(*   - TextVectorisationModel.finetune, the wrapper that encodes pairs and *)
(*     delegates to Finetunable.finetune;                                  *)
(*   - TextGenerationModel.generate, as pure operators applied by an       *)
(*     action (specification SpecGen).                                     *)
(* A behaviour is one object's construction, any number of to(device)      *)
(* calls, and one finetune call: every attribute that call reads is        *)
(* assigned by it first (lines 53-63) or is covered by Init and To.        *)
(* Integers stand for Python ints; None stands for Python's None or an     *)
(* attribute that does not exist.  validation_split is held in percent.    *)
(***************************************************************************)
EXTENDS Integers, Sequences, FiniteSets, TLC

\* Python None (every program integer of the model is >= 0)
None == -1

\* ------------------------------------------------------------------ bounds
\* largest dataset (number of examples) a caller passes
MaxLen == 3
\* largest epochs argument a caller passes explicitly
MaxEpochs == 2
\* largest batch size the probe can settle on
MaxBatch == 8
\* largest batch size that is not a power of two a caller passes explicitly
MaxExplicit == 3
\* largest small optimal_batch_size a caller passes (OPTIMAL_BATCH_SIZE is added)
MaxOptimal == 4

\* ------------------------------------------------------- program constants
DEFAULT_VALIDATION_SPLIT == 15
DEFAULT_EPOCHS == 20
OPTIMAL_BATCH_SIZE == 128
PATIENCE == 1
\* pytorch_lightning's accumulate_grad_batches when the keyword is not passed
DEFAULT_ACCUMULATE == 1

Devices == {"cuda", "cpu"}

\* EarlyStopping(monitor="val_loss", patience=1)
EarlyStopping == [monitor |-> "val_loss", patience |-> PATIENCE]

\* the value of `trainer` when the caller passes none
NoTrainer ==
    [kind |-> "none", max_epochs |-> None, accumulate_grad_batches |-> None,
     callbacks |-> {}]

\* trainers a caller may construct and pass: with or without an early-stopping
\* callback of their own
CustomTrainers ==
    {[kind |-> "custom", max_epochs |-> MaxEpochs,
      accumulate_grad_batches |-> DEFAULT_ACCUMULATE, callbacks |-> cb] :
        cb \in {{}, {EarlyStopping}}}

ValidationSplits == {DEFAULT_VALIDATION_SPLIT, 50}
RECURSIVE IsPowerOfTwo(_)
IsPowerOfTwo(b) ==
    IF b = 1 THEN TRUE
    ELSE IF b < 1 \/ b % 2 = 1 THEN FALSE
    ELSE IsPowerOfTwo(b \div 2)

\* batch sizes auto_scale_batch_size="power" can settle on, starting from 1
ScaledSizes == {b \in 1..MaxBatch : IsPowerOfTwo(b)}

BatchSizes == {None} \cup (0..MaxExplicit) \cup ScaledSizes
OptimalSizes == {None} \cup (0..MaxOptimal) \cup {OPTIMAL_BATCH_SIZE}

\* the arguments of one Finetunable.finetune call
FinetuneArgs ==
    [dataset : 0..MaxLen, validation_split : ValidationSplits,
     epochs : 1..MaxEpochs, batch_size : BatchSizes,
     optimal_batch_size : OptimalSizes, early_stopping : BOOLEAN,
     trainer : {NoTrainer} \cup CustomTrainers]

\* the defaults of Finetunable.finetune's signature, for a dataset of n examples
DefaultArgs(n) ==
    [dataset |-> n, validation_split |-> DEFAULT_VALIDATION_SPLIT,
     epochs |-> DEFAULT_EPOCHS, batch_size |-> None,
     optimal_batch_size |-> None, early_stopping |-> TRUE,
     trainer |-> NoTrainer]

NoArgs ==
    [dataset |-> 0, validation_split |-> DEFAULT_VALIDATION_SPLIT,
     epochs |-> 1, batch_size |-> None, optimal_batch_size |-> None,
     early_stopping |-> FALSE, trainer |-> NoTrainer]

\* line 76: trainer_kwargs = {}
EmptyKwargs == [accumulate_grad_batches |-> None, callbacks |-> {}]

VARIABLES
    cuda_available,   \* torch.cuda.is_available()
    model_device,     \* self._model_device
    device,           \* the device self.model is on
    training,         \* self.model is in training mode (train() / eval())
    self_batch_size,  \* self.batch_size
    dataset_train,    \* len(self.dataset_train), None when the attribute is absent
    dataset_valid,    \* len(self.dataset_valid), None when the attribute is absent
    self_trainer,     \* self.trainer: "none", "temp" (the probe's) or "main"
    temp_trainer,     \* the probing trainer object is alive
    reclaimed,        \* garbage_collection_cuda() has run since the probe
    pc,               \* position inside the call: "idle" before it, "done" after it
    args,             \* arguments of the running / last Finetunable.finetune call
    pre_device,       \* device the model was on when the call was made
    trainer_kwargs,   \* the keyword dictionary of lines 76-87
    trainer,          \* the trainer that runs fit
    epoch,            \* epochs completed by the running fit
    val_improved,     \* the last validation cycle improved val_loss
    run_end,          \* how fit ended: "none", "EarlyStopped", "EpochsExhausted"
    history,          \* phases of the running / last call, in order
    outcome,          \* "none" (running or never called), "returned", "raised"
    error,            \* what was raised
    tv_args,          \* arguments of the last TextVectorisationModel.finetune call
    encoded,          \* number of rows encoded by that call
    g_pc,             \* generate: "call" before it ran, "returned" after
    g_text,           \* generate's text argument
    g_kwargs,         \* generate's keyword arguments as the caller passed them
    g_do_sample,      \* do_sample handed to self.model.generate
    g_handed,         \* kwargs handed to self.model.generate
    g_output,         \* generate's return value
    c_pc,             \* classify: "call" before it ran, "returned" / "raised" after
    c_text,           \* classify's text argument
    c_labels,         \* classify's labels argument
    c_output,         \* classify's return value
    c_passes,         \* the forward passes classify made, in order
    k_pc,             \* TextGeneration.finetune: "call", then "returned" / "raised"
    k_model,          \* self.model of the task
    k_params,         \* the keys of the params dictionary
    k_kwargs,         \* the further keyword arguments of the call
    k_result          \* what the call did

vars ==
    <<cuda_available, model_device, device, training, self_batch_size,
      dataset_train, dataset_valid, self_trainer, temp_trainer, reclaimed, pc,
      args, pre_device, trainer_kwargs, trainer, epoch, val_improved, run_end,
      history, outcome, error, tv_args, encoded,
      g_pc, g_text, g_kwargs, g_do_sample, g_handed, g_output,
      c_pc, c_text, c_labels, c_output, c_passes,
      k_pc, k_model, k_params, k_kwargs, k_result>>

ft_vars ==
    <<cuda_available, model_device, device, training, self_batch_size,
      dataset_train, dataset_valid, self_trainer, temp_trainer, reclaimed, pc,
      args, pre_device, trainer_kwargs, trainer, epoch, val_improved, run_end,
      history, outcome, error, tv_args, encoded>>

gen_vars == <<g_pc, g_text, g_kwargs, g_do_sample, g_handed, g_output>>

cls_vars == <<c_pc, c_text, c_labels, c_output, c_passes>>

task_vars == <<k_pc, k_model, k_params, k_kwargs, k_result>>

aux_vars == <<cls_vars, task_vars>>

\* classify has not been called
ClassifyIdle ==
    /\ c_pc = "call"
    /\ c_text = [is_list |-> FALSE, items |-> <<1>>]
    /\ c_labels = <<>>
    /\ c_output = <<>>
    /\ c_passes = <<>>

\* TextGeneration.finetune has not been called
TaskIdle ==
    /\ k_pc = "call"
    /\ k_model = [name |-> "gpt2", finetune |-> "BaseModel"]
    /\ k_params = {}
    /\ k_kwargs = [validation_split |-> DEFAULT_VALIDATION_SPLIT, epochs |-> 1]
    /\ k_result = [value |-> "None", printed |-> "", error |-> "none",
                   message |-> "", delegated |-> FALSE, trained |-> FALSE,
                   forwarded |-> <<>>]

\* ------------------------------------------------- TextVectorisationModel
\* largest text_pairs / similarity_scores list a caller passes
MaxPairs == 2

\* the arguments of one TextVectorisationModel.finetune call
TVArgs ==
    [text_pairs : 0..MaxPairs, similarity_scores : 0..MaxPairs,
     validation_split : ValidationSplits, epochs : 1..MaxEpochs,
     batch_size : {None, MaxBatch}, early_stopping : BOOLEAN,
     trainer : {NoTrainer} \cup CustomTrainers]

\* tv_args while TextVectorisationModel.finetune has not been called
NoTVArgs ==
    [text_pairs |-> None, similarity_scores |-> None,
     validation_split |-> DEFAULT_VALIDATION_SPLIT, epochs |-> 1,
     batch_size |-> None, early_stopping |-> FALSE, trainer |-> NoTrainer]

\* ------------------------------------------- TextGenerationModel.generate
\* a key that is not in kwargs
Absent == -2

\* largest num_return_sequences / num_generations a caller passes
MaxSequences == 2
\* longest list of texts a caller passes
MaxTexts == 2

\* line 330-331
params ==
    {"temperature", "top_k", "top_p", "repetition_penalty", "length_penalty",
     "num_beams", "num_return_sequences", "num_generations"}

\* the keyword arguments generate is called with: do_sample (0 False, 1 True),
\* the keys of params, and max_length as a key generate does not look at;
\* temperature in tenths
Keys == params \cup {"do_sample", "max_length"}

Counts == {Absent, None} \cup (1..MaxSequences)

AllKwargs ==
    [temperature : {Absent, None, 0, 7},
     top_k : {Absent, None, 2},
     top_p : {Absent, 2},
     repetition_penalty : {Absent, 2},
     length_penalty : {Absent, 2},
     num_beams : {Absent, 2},
     num_return_sequences : Counts,
     num_generations : Counts,
     do_sample : {Absent, None, 0, 1},
     max_length : {Absent, 20}]

NoKwargs == [k \in Keys |-> Absent]

\* the text argument: one string, or a list of strings; strings are numbered
AllTexts ==
    {[is_list |-> FALSE, items |-> <<1>>]}
        \cup {[is_list |-> TRUE, items |-> [i \in 1..n |-> i]] : n \in 0..MaxTexts}

NoText == [is_list |-> FALSE, items |-> <<1>>]

\* a decoded string: candidate cand generated from text t
Str(t, cand) == [kind |-> "str", text |-> t, cand |-> cand, items |-> <<>>]

\* a Python list
List(xs) == [kind |-> "list", text |-> 0, cand |-> 0, items |-> xs]

NoOutput == List(<<>>)

\* line 329: kwargs.pop("do_sample", None) or False
PopDoSample(kw) == kw["do_sample"] \notin {Absent, None, 0}

\* lines 334-337: some key of params is in kwargs with a value that is not None
ParamsChanged(kw) == \E p \in params : kw[p] \notin {Absent, None}

\* do_sample with the temperature test of lines 339-343 placed before the
\* loop of lines 334-337
do_sample_TemperatureFirst(kw) ==
    LET zero == IF kw["temperature"] = 0 THEN FALSE ELSE PopDoSample(kw)
    IN  IF ParamsChanged(kw) THEN TRUE ELSE zero

\* lines 329-343: the do_sample flag handed to self.model.generate
do_sample(kw) ==
    LET sampled == IF ParamsChanged(kw) THEN TRUE ELSE PopDoSample(kw)
    IN  IF kw["temperature"] # Absent /\ kw["temperature"] = 0
          THEN FALSE
          ELSE sampled

\* lines 345-350 without the deletion of line 350
Rename_KeepsKey(kw) ==
    IF kw["num_generations"] \notin {Absent, None}
      THEN [kw EXCEPT !["num_return_sequences"] = kw["num_generations"]]
      ELSE kw

\* lines 345-350: num_generations renamed to num_return_sequences
Rename(kw) ==
    IF kw["num_generations"] # Absent
      THEN LET named ==
                 IF kw["num_generations"] # None
                   THEN [kw EXCEPT !["num_return_sequences"] = kw["num_generations"]]
                   ELSE kw
           IN  [named EXCEPT !["num_generations"] = Absent]
      ELSE kw

\* lines 329, 339-350: the kwargs handed to self.model.generate
handed_kwargs(kw) ==
    LET popped == [kw EXCEPT !["do_sample"] = Absent]
        cooled == IF popped["temperature"] # Absent /\ popped["temperature"] = 0
                    THEN [popped EXCEPT !["temperature"] = Absent]
                    ELSE popped
    IN  Rename(cooled)

\* line 367: the number of sequences self.model.generate returns for one text
Returned(kw) ==
    IF kw["num_return_sequences"] \in {Absent, None}
      THEN 1
      ELSE kw["num_return_sequences"]

\* lines 372-375: every returned sequence of text t decoded, in order
Decoded(t, kw) == [j \in 1..Returned(kw) |-> Str(t, j)]

\* lines 379-385: kwargs.get("num_return_sequences", 1) == 1
Unwraps(kw) == kw["num_return_sequences"] \in {Absent, 1}

\* output with the unwrapping of lines 379-385 done only for a single text
output_UnwrapSingleOnly(text, kw) ==
    LET value == [i \in DOMAIN text.items |-> Decoded(text.items[i], kw)]
    IN  IF text.is_list
          THEN List([i \in DOMAIN value |-> List(value[i])])
          ELSE IF Unwraps(kw) THEN value[1][1] ELSE List(value[1])

\* lines 352-391: the return value for text and the handed kwargs kw
output(text, kw) ==
    LET value == [i \in DOMAIN text.items |-> Decoded(text.items[i], kw)]
        unwrapped ==
            IF Unwraps(kw)
              THEN [i \in DOMAIN value |-> value[i][1]]
              ELSE [i \in DOMAIN value |-> List(value[i])]
    IN  IF text.is_list THEN List(unwrapped) ELSE unwrapped[1]

\* lines 324-391: one call generate(text, **kw)
generate(text, kw) ==
    /\ g_pc = "call"
    /\ g_do_sample' = do_sample(kw)
    /\ g_handed' = handed_kwargs(kw)
    /\ g_output' = output(text, handed_kwargs(kw))
    /\ g_pc' = "returned"
    /\ UNCHANGED <<g_text, g_kwargs>>
    /\ UNCHANGED <<ft_vars, aux_vars>>

\* the state in which generate is about to be called with some arguments
InitGen ==
    /\ cuda_available = TRUE
    /\ model_device = "cuda"
    /\ device = model_device
    /\ training = FALSE
    /\ self_batch_size = 1
    /\ dataset_train = None
    /\ dataset_valid = None
    /\ self_trainer = "none"
    /\ temp_trainer = FALSE
    /\ reclaimed = FALSE
    /\ pc = "idle"
    /\ args = NoArgs
    /\ pre_device = model_device
    /\ trainer_kwargs = EmptyKwargs
    /\ trainer = NoTrainer
    /\ epoch = 0
    /\ val_improved = TRUE
    /\ run_end = "none"
    /\ history = <<>>
    /\ outcome = "none"
    /\ error = "none"
    /\ tv_args = NoTVArgs
    /\ encoded = 0
    /\ g_pc = "call"
    /\ g_text \in AllTexts
    /\ g_kwargs \in AllKwargs
    /\ g_do_sample = FALSE
    /\ g_handed = NoKwargs
    /\ g_output = NoOutput
    /\ ClassifyIdle
    /\ TaskIdle

NextGen == generate(g_text, g_kwargs)

SpecGen == InitGen /\ [][NextGen]_vars

\* ------------------------------------------------------------ Init
\* PathModel.__init__: the model is loaded in eval mode onto _model_device;
\* Finetunable.__init__: batch_size = 1
Init ==
    /\ cuda_available \in BOOLEAN
    /\ model_device \in Devices
    /\ device = model_device
    /\ training = FALSE
    /\ self_batch_size = 1
    /\ dataset_train = None
    /\ dataset_valid = None
    /\ self_trainer = "none"
    /\ temp_trainer = FALSE
    /\ reclaimed = FALSE
    /\ pc = "idle"
    /\ args = NoArgs
    /\ pre_device = model_device
    /\ trainer_kwargs = EmptyKwargs
    /\ trainer = NoTrainer
    /\ epoch = 0
    /\ val_improved = TRUE
    /\ run_end = "none"
    /\ history = <<>>
    /\ outcome = "none"
    /\ error = "none"
    /\ tv_args = NoTVArgs
    /\ encoded = 0
    /\ g_pc = "call"
    /\ g_text = NoText
    /\ g_kwargs = NoKwargs
    /\ g_do_sample = FALSE
    /\ g_handed = NoKwargs
    /\ g_output = NoOutput
    /\ ClassifyIdle
    /\ TaskIdle

\* BaseModel.to(device)
To(d) ==
    /\ pc = "idle"
    /\ UNCHANGED <<gen_vars, aux_vars>>
    /\ device' = d
    /\ model_device' = d
    /\ UNCHANGED <<cuda_available, training, self_batch_size, dataset_train,
                   dataset_valid, self_trainer, temp_trainer, reclaimed, pc,
                   args, pre_device, trainer_kwargs, trainer, epoch,
                   val_improved, run_end, history, outcome, error, tv_args,
                   encoded>>

\* ------------------------------------------------ Finetunable.finetune
\* an exception leaves the call: the frame's locals die, nothing else changes
Raise(e) ==
    /\ outcome' = "raised"
    /\ error' = e
    /\ temp_trainer' = FALSE
    /\ pc' = "done"

\* `batch_size or 1` with the argument forgotten
OrOne_Ignored(b) == 1

\* `batch_size or 1`
OrOne(b) == IF b = None \/ b = 0 THEN 1 ELSE b

\* Enter with the GPU check of lines 55-56 left out
Enter_NoGpuCheck(a) ==
    /\ args' = a
    /\ pre_device' = device
    /\ self_batch_size' = IF a.batch_size = None \/ a.batch_size = 0 THEN 1 ELSE a.batch_size
    /\ trainer_kwargs' = [accumulate_grad_batches |-> None, callbacks |-> {}]
    /\ trainer' = a.trainer
    /\ epoch' = 0
    /\ val_improved' = TRUE
    /\ run_end' = "none"
    /\ history' = <<>>
    /\ reclaimed' = FALSE
    /\ outcome' = "none"
    /\ error' = "none"
    /\ temp_trainer' = FALSE
    /\ pc' = "split"
    /\ UNCHANGED <<cuda_available, model_device, device, training,
                   dataset_train, dataset_valid, self_trainer>>

\* lines 51-56: entry of the call with arguments a; the GPU check
Enter(a) ==
    /\ args' = a
    /\ pre_device' = device
    /\ self_batch_size' = OrOne(a.batch_size)
    /\ trainer_kwargs' = EmptyKwargs
    /\ trainer' = a.trainer
    /\ epoch' = 0
    /\ val_improved' = TRUE
    /\ run_end' = "none"
    /\ history' = <<>>
    /\ reclaimed' = FALSE
    /\ IF ~cuda_available
         THEN Raise("DeviceUnavailable")
         ELSE /\ outcome' = "none"
              /\ error' = "none"
              /\ temp_trainer' = FALSE
              /\ pc' = "split"
    /\ UNCHANGED <<cuda_available, model_device, device, training,
                   dataset_train, dataset_valid, self_trainer>>

\* a direct call of Finetunable.finetune with arguments a
Finetune(a) ==
    /\ Enter(a)
    /\ UNCHANGED <<gen_vars, aux_vars>>
    /\ UNCHANGED <<tv_args, encoded>>

\* ---- IEEE-754 binary64 arithmetic of line 58
\* A double is held as [hi, lo, e]: the value (hi * 2^27 + lo) / 2^e, with a
\* significand hi * 2^27 + lo of at most 53 bits.
RECURSIVE Pow2(_)
Pow2(k) == IF k = 0 THEN 1 ELSE 2 * Pow2(k - 1)

\* the validation_split values, in percent, that the double table covers
SplitPercents == {5 * k : k \in 1 .. 19}

\* the double a validation_split literal of split/100 denotes (float.hex())
Double(split) ==
    CASE split =  5 -> [hi |-> 53687091, lo |->  26843546, e |-> 57]   \* 0x1.999999999999ap-5
      [] split = 10 -> [hi |-> 53687091, lo |->  26843546, e |-> 56]   \* 0x1.999999999999ap-4
      [] split = 15 -> [hi |-> 40265318, lo |->  53687091, e |-> 55]   \* 0x1.3333333333333p-3
      [] split = 20 -> [hi |-> 53687091, lo |->  26843546, e |-> 55]   \* 0x1.999999999999ap-3
      [] split = 25 -> [hi |-> 33554432, lo |->         0, e |-> 54]   \* 0x1.0000000000000p-2
      [] split = 30 -> [hi |-> 40265318, lo |->  53687091, e |-> 54]   \* 0x1.3333333333333p-2
      [] split = 35 -> [hi |-> 46976204, lo |-> 107374182, e |-> 54]   \* 0x1.6666666666666p-2
      [] split = 40 -> [hi |-> 53687091, lo |->  26843546, e |-> 54]   \* 0x1.999999999999ap-2
      [] split = 45 -> [hi |-> 60397977, lo |->  80530637, e |-> 54]   \* 0x1.ccccccccccccdp-2
      [] split = 50 -> [hi |-> 33554432, lo |->         0, e |-> 53]   \* 0x1.0000000000000p-1
      [] split = 55 -> [hi |-> 36909875, lo |->  26843546, e |-> 53]   \* 0x1.199999999999ap-1
      [] split = 60 -> [hi |-> 40265318, lo |->  53687091, e |-> 53]   \* 0x1.3333333333333p-1
      [] split = 65 -> [hi |-> 43620761, lo |->  80530637, e |-> 53]   \* 0x1.4cccccccccccdp-1
      [] split = 70 -> [hi |-> 46976204, lo |-> 107374182, e |-> 53]   \* 0x1.6666666666666p-1
      [] split = 75 -> [hi |-> 50331648, lo |->         0, e |-> 53]   \* 0x1.8000000000000p-1
      [] split = 80 -> [hi |-> 53687091, lo |->  26843546, e |-> 53]   \* 0x1.999999999999ap-1
      [] split = 85 -> [hi |-> 57042534, lo |->  53687091, e |-> 53]   \* 0x1.b333333333333p-1
      [] split = 90 -> [hi |-> 60397977, lo |->  80530637, e |-> 53]   \* 0x1.ccccccccccccdp-1
      [] split = 95 -> [hi |-> 63753420, lo |-> 107374182, e |-> 53]   \* 0x1.e666666666666p-1

\* by how many bits the significand hi * 2^27 + lo exceeds 53 bits
Excess(hi) ==
    CHOOSE s \in 0 .. 4 :
        /\ hi < Pow2(26 + s)
        /\ s = 0 \/ hi >= Pow2(25 + s)

\* the result of an operation, rounded to 53 bits, ties to even
Round(x) ==
    LET s == Excess(x.hi)
    IN  IF s = 0
        THEN x
        ELSE LET rest == x.lo % Pow2(s)
                 q_lo == (x.lo \div Pow2(s)) + (x.hi % Pow2(s)) * Pow2(27 - s)
                 q_hi == x.hi \div Pow2(s)
                 up   == \/ rest > Pow2(s - 1)
                         \/ rest = Pow2(s - 1) /\ q_lo % 2 = 1
             IN  [hi |-> IF up /\ q_lo + 1 = Pow2(27) THEN q_hi + 1 ELSE q_hi,
                  lo |-> IF up THEN (q_lo + 1) % Pow2(27) ELSE q_lo,
                  e  |-> x.e - s]

\* 1 - v for a double 0 < v < 1: the exact difference 2^e - significand, rounded
OneMinus(v) ==
    Round([hi |-> Pow2(v.e - 27) - v.hi - (IF v.lo = 0 THEN 0 ELSE 1),
           lo |-> (Pow2(27) - v.lo) % Pow2(27),
           e  |-> v.e])

\* n * x for an int n, converted exactly, and a double x: the exact product, rounded
Times(n, x) ==
    Round([hi |-> x.hi * n + ((x.lo * n) \div Pow2(27)),
           lo |-> (x.lo * n) % Pow2(27),
           e  |-> x.e])

\* int(x) for a double x >= 0: truncation
Truncate(x) == x.hi \div Pow2(x.e - 27)

\* the split with the product taken in exact arithmetic
len_train_Exact(n, split) == (n * (100 - split)) \div 100

\* int(len(dataset) * (1 - validation_split)), validation_split in percent
len_train(n, split) == Truncate(Times(n, OneMinus(Double(split))))

len_valid(n, split) == n - len_train(n, split)

\* lines 58-63: random_split and the two partitions stored on self
Split ==
    /\ pc = "split"
    /\ UNCHANGED <<gen_vars, aux_vars>>
    /\ dataset_train' = len_train(args.dataset, args.validation_split)
    /\ dataset_valid' = len_valid(args.dataset, args.validation_split)
    /\ history' = Append(history, "Splitting")
    /\ pc' = IF args.batch_size = None THEN "search" ELSE "configure"
    /\ UNCHANGED <<cuda_available, model_device, device, training,
                   self_batch_size, self_trainer, temp_trainer, reclaimed,
                   args, pre_device, trainer_kwargs, trainer, epoch,
                   val_improved, run_end, outcome, error, tv_args, encoded>>

\* lines 67-69: the probing trainer tunes self.batch_size
Search ==
    /\ pc = "search"
    /\ UNCHANGED <<gen_vars, aux_vars>>
    /\ temp_trainer' = TRUE
    /\ self_trainer' = "temp"
    /\ history' = Append(history, "BatchSizeSearch")
    /\ \E b \in ScaledSizes : self_batch_size' = b
    /\ pc' = "reclaim"
    /\ UNCHANGED <<cuda_available, model_device, device, training,
                   dataset_train, dataset_valid, reclaimed, args, pre_device,
                   trainer_kwargs, trainer, epoch, val_improved, run_end,
                   outcome, error, tv_args, encoded>>

\* lines 67-69: temp_trainer.tune(self) raises
SearchRaises ==
    /\ pc = "search"
    /\ UNCHANGED <<gen_vars, aux_vars>>
    /\ self_trainer' = "temp"
    /\ history' = Append(history, "BatchSizeSearch")
    /\ Raise("DelegateError")
    /\ UNCHANGED <<cuda_available, model_device, device, training,
                   self_batch_size, dataset_train, dataset_valid, reclaimed,
                   args, pre_device, trainer_kwargs, trainer, epoch,
                   val_improved, run_end, tv_args, encoded>>

\* Reclaim with lines 72-74 left out: the probe's trainer stays referenced
Reclaim_Skipped ==
    /\ pc = "reclaim"
    /\ UNCHANGED <<gen_vars, aux_vars>>
    /\ pc' = "configure"
    /\ UNCHANGED <<cuda_available, model_device, device, training,
                   self_batch_size, dataset_train, dataset_valid,
                   self_trainer, temp_trainer, reclaimed, args,
                   pre_device, trainer_kwargs, trainer, epoch, val_improved,
                   run_end, history, outcome, error, tv_args, encoded>>

\* lines 71-74: del self.trainer, del temp_trainer, garbage_collection_cuda()
Reclaim ==
    /\ pc = "reclaim"
    /\ UNCHANGED <<gen_vars, aux_vars>>
    /\ self_trainer' = "none"
    /\ temp_trainer' = FALSE
    /\ reclaimed' = TRUE
    /\ pc' = "configure"
    /\ UNCHANGED <<cuda_available, model_device, device, training,
                   self_batch_size, dataset_train, dataset_valid, args,
                   pre_device, trainer_kwargs, trainer, epoch, val_improved,
                   run_end, history, outcome, error, tv_args, encoded>>

Min(x, y) == IF x < y THEN x ELSE y

Max(x, y) == IF x > y THEN x ELSE y

\* line 81 without the min of line 80 and without max(1, .)
accumulate_grad_batches_Plain(b, o) == o \div b

\* lines 78-82: max(1, int(optimal_batch_size / min(self.batch_size, optimal_batch_size)))
accumulate_grad_batches(b, o) == Max(1, o \div Min(b, o))

\* TrainerKwargs with lines 84-87 left out
TrainerKwargs_NoCallback(a, b) ==
    [accumulate_grad_batches |->
        IF a.optimal_batch_size \notin {None, 0}
          THEN Max(1, a.optimal_batch_size \div Min(b, a.optimal_batch_size))
          ELSE None,
     callbacks |-> {}]

\* lines 76-87: the keyword dictionary built for pl.Trainer
TrainerKwargs(a, b) ==
    [accumulate_grad_batches |->
        IF a.optimal_batch_size \notin {None, 0}
          THEN accumulate_grad_batches(b, a.optimal_batch_size)
          ELSE None,
     callbacks |-> IF a.early_stopping THEN {EarlyStopping} ELSE {}]

\* lines 89-91: the caller's trainer, or pl.Trainer(max_epochs=epochs, **trainer_kwargs)
TrainerFor(a, kw) ==
    IF a.trainer.kind = "none"
      THEN [kind |-> "built", max_epochs |-> a.epochs,
            accumulate_grad_batches |->
                IF kw.accumulate_grad_batches = None
                  THEN DEFAULT_ACCUMULATE
                  ELSE kw.accumulate_grad_batches,
            callbacks |-> kw.callbacks]
      ELSE a.trainer

\* lines 76-91
Configure ==
    /\ pc = "configure"
    /\ UNCHANGED <<gen_vars, aux_vars>>
    /\ trainer_kwargs' = TrainerKwargs(args, self_batch_size)
    /\ trainer' = TrainerFor(args, trainer_kwargs')
    /\ pc' = "fit"
    /\ UNCHANGED <<cuda_available, model_device, device, training,
                   self_batch_size, dataset_train, dataset_valid,
                   self_trainer, temp_trainer, reclaimed, args, pre_device,
                   epoch, val_improved, run_end, history, outcome, error,
                   tv_args, encoded>>

\* lines 105-108: the batch size the training loader is built with
train_dataloader == self_batch_size

\* lines 110-113: the batch size the validation loader is built with
val_dataloader == self_batch_size

\* lines 93-94: self.model.train(); trainer.fit(self) attaches the trainer
\* and moves the model to the GPU (gpus=-1)
FitStart ==
    /\ pc = "fit"
    /\ UNCHANGED <<gen_vars, aux_vars>>
    /\ training' = TRUE
    /\ self_trainer' = "main"
    /\ device' = "cuda"
    /\ pc' = "training"
    /\ UNCHANGED <<cuda_available, model_device, self_batch_size,
                   dataset_train, dataset_valid, temp_trainer, reclaimed,
                   args, pre_device, trainer_kwargs, trainer, epoch,
                   val_improved, run_end, history, outcome, error, tv_args,
                   encoded>>

\* line 94: one training epoch (training_step over train_dataloader)
TrainEpoch ==
    /\ pc = "training"
    /\ UNCHANGED <<gen_vars, aux_vars>>
    /\ history' = Append(history, "Training")
    /\ pc' = "validating"
    /\ UNCHANGED <<cuda_available, model_device, device, training,
                   self_batch_size, dataset_train, dataset_valid,
                   self_trainer, temp_trainer, reclaimed, args, pre_device,
                   trainer_kwargs, trainer, epoch, val_improved, run_end,
                   outcome, error, tv_args, encoded>>

\* the EarlyStopping callback's verdict after a validation cycle
ShouldStop(t, improved) == EarlyStopping \in t.callbacks /\ ~improved

\* line 94: one validation cycle; val_loss improves or not; fit ends when the
\* early-stopping callback says so or max_epochs is reached, and may leave the
\* model on either device (line 100)
ValidateEpoch ==
    /\ pc = "validating"
    /\ UNCHANGED <<gen_vars, aux_vars>>
    /\ history' = Append(history, "Validating")
    /\ epoch' = epoch + 1
    /\ \E improved \in BOOLEAN :
        /\ val_improved' = improved
        /\ IF ShouldStop(trainer, improved)
             THEN /\ run_end' = "EarlyStopped"
                  /\ pc' = "cleanup"
                  /\ device' \in Devices
             ELSE IF epoch + 1 >= trainer.max_epochs
               THEN /\ run_end' = "EpochsExhausted"
                    /\ pc' = "cleanup"
                    /\ device' \in Devices
               ELSE /\ run_end' = run_end
                    /\ pc' = "training"
                    /\ device' = device
    /\ UNCHANGED <<cuda_available, model_device, training, self_batch_size,
                   dataset_train, dataset_valid, self_trainer, temp_trainer,
                   reclaimed, args, pre_device, trainer_kwargs, trainer,
                   outcome, error, tv_args, encoded>>

\* line 94: trainer.fit raises; lines 96-102 are skipped
FitRaises ==
    /\ pc \in {"training", "validating"}
    /\ UNCHANGED <<gen_vars, aux_vars>>
    /\ Raise("DelegateError")
    /\ UNCHANGED <<cuda_available, model_device, device, training, self_batch_size,
                   dataset_train, dataset_valid, self_trainer, reclaimed,
                   args, pre_device, trainer_kwargs, trainer, epoch,
                   val_improved, run_end, history, tv_args, encoded>>

\* lines 96-103: partitions and trainer deleted, model back on
\* self._model_device (BaseModel.to) and in eval mode
Cleanup ==
    /\ pc = "cleanup"
    /\ UNCHANGED <<gen_vars, aux_vars>>
    /\ dataset_train' = None
    /\ dataset_valid' = None
    /\ self_trainer' = "none"
    /\ device' = model_device
    /\ training' = FALSE
    /\ history' = Append(history, "Cleanup")
    /\ outcome' = "returned"
    /\ temp_trainer' = FALSE
    /\ pc' = "done"
    /\ UNCHANGED <<cuda_available, model_device, self_batch_size, reclaimed,
                   args, pre_device, trainer_kwargs, trainer, epoch,
                   val_improved, run_end, error, tv_args, encoded>>

\* ------------------------------------ TextVectorisationModel.finetune
\* TVFinetune with the assertion of line 307 placed after the encoding
TVFinetune_EncodeFirst(t) ==
    /\ tv_args' = t
    /\ UNCHANGED <<gen_vars, aux_vars>>
    /\ encoded' = Min(t.text_pairs, t.similarity_scores)
    /\ IF t.text_pairs # t.similarity_scores
         THEN /\ Raise("AssertionError")
              /\ UNCHANGED <<cuda_available, model_device, device, training,
                             self_batch_size, dataset_train, dataset_valid,
                             self_trainer, reclaimed, args,
                             trainer_kwargs, trainer, epoch, val_improved,
                             run_end, history>>
              /\ pre_device' = device
         ELSE Enter(DefaultArgs(encoded'))

\* lines 307-314: the length assertion, the encoding of every row, then
\* Finetunable.finetune(self, dataset) with that method's defaults
TVFinetune(t) ==
    /\ tv_args' = t
    /\ UNCHANGED <<gen_vars, aux_vars>>
    /\ IF t.text_pairs # t.similarity_scores
         THEN /\ encoded' = 0
              /\ Raise("AssertionError")
              /\ UNCHANGED <<cuda_available, model_device, device, training,
                             self_batch_size, dataset_train, dataset_valid,
                             self_trainer, reclaimed, args,
                             trainer_kwargs, trainer, epoch, val_improved,
                             run_end, history>>
              /\ pre_device' = device
         ELSE /\ encoded' = Min(t.text_pairs, t.similarity_scores)
              /\ Enter(DefaultArgs(encoded'))

Next ==
    \/ \E d \in Devices : To(d)
    \/ pc = "idle" /\ \E a \in FinetuneArgs : Finetune(a)
    \/ pc = "idle" /\ \E t \in TVArgs : TVFinetune(t)
    \/ Split
    \/ Search
    \/ SearchRaises
    \/ Reclaim
    \/ Configure
    \/ FitStart
    \/ TrainEpoch
    \/ ValidateEpoch
    \/ FitRaises
    \/ Cleanup

Spec == Init /\ [][Next]_vars

\* ------------------------------------------------------------ claims
Range(f) == {f[i] : i \in DOMAIN f}

Ended == pc = "done"

InFit == pc \in {"training", "validating"}

\* C1 (as claimed): once a finetune call has ended, by return or by raise,
\* the partitions are discarded, the model is on its pre-call device and it
\* is in evaluation mode.
C1_CleanupAfterEveryCall ==
    Ended =>
        /\ dataset_train = None
        /\ dataset_valid = None
        /\ device = pre_device
        /\ training = FALSE

\* C2: without a GPU no partition is ever created or stored, no batch-size
\* search and no training starts, and a call that got past the wrapper's
\* assertion ends with the device-unavailable error.
C2_NoGpuNoWork ==
    ~cuda_available =>
        /\ dataset_train = None
        /\ dataset_valid = None
        /\ history = <<>>
        /\ temp_trainer = FALSE
        /\ self_trainer = "none"
        /\ training = FALSE
        /\ pc \in {"idle", "done"}
        /\ (Ended /\ error # "AssertionError") =>
               (outcome = "raised" /\ error = "DeviceUnavailable")

C2_Witness ==
    /\ ~cuda_available
    /\ Ended
    /\ error = "DeviceUnavailable"
    /\ args.dataset > 0
    /\ args.batch_size = None

PhaseRank(p) ==
    CASE p = "Splitting" -> 1
      [] p = "BatchSizeSearch" -> 2
      [] p = "Training" -> 3
      [] p = "Validating" -> 3
      [] p = "Cleanup" -> 4

\* C3: the phases of a call occur in the order Splitting, BatchSizeSearch,
\* Training/Validating (alternating, training first), Cleanup, each of the
\* other three at most once (stated on neighbours, which orders the whole
\* history); and while the main run trains after a probe, the probe's
\* trainer is no longer referenced and the memory reclamation pass has run.
C3_PhaseOrder ==
    /\ history # <<>> => history[1] = "Splitting"
    /\ \A i \in DOMAIN history :
          i > 1 =>
            /\ PhaseRank(history[i - 1]) <= PhaseRank(history[i])
            /\ (PhaseRank(history[i - 1]) = PhaseRank(history[i]))
                  => (history[i - 1] = "Training" /\ history[i] = "Validating")
                     \/ (history[i - 1] = "Validating" /\ history[i] = "Training")
            /\ history[i] = "Validating" => history[i - 1] = "Training"
    /\ (pc \in {"fit", "training", "validating"}
           /\ "BatchSizeSearch" \in Range(history)) =>
          /\ temp_trainer = FALSE
          /\ self_trainer # "temp"
          /\ reclaimed
    /\ (pc \in {"training", "validating"}) =>
          (self_trainer = "main" /\ "Cleanup" \notin Range(history))

C3_Witness ==
    /\ Ended
    /\ outcome = "returned"
    /\ "BatchSizeSearch" \in Range(history)
    /\ Len(history) >= 7

PastSearch == pc \in {"configure", "fit", "training", "validating", "cleanup"}

\* the part of C4 on when the probe runs
SearchIffNoBatchSize ==
    /\ "BatchSizeSearch" \in Range(history) => args.batch_size = None
    /\ (PastSearch /\ args.batch_size = None)
          => "BatchSizeSearch" \in Range(history)

\* C4 (as claimed): the probe runs iff no batch size was supplied, and with a
\* supplied batch size both loaders use exactly that batch size.
C4_ExplicitBatchSizeUsed ==
    /\ SearchIffNoBatchSize
    /\ (InFit /\ args.batch_size # None) =>
          /\ train_dataloader = args.batch_size
          /\ val_dataloader = args.batch_size

\* C4 (amended): the probe runs iff no batch size was supplied; with a
\* supplied batch size of at least 1 both loaders use exactly that batch
\* size, and with a supplied batch size of 0 they use 1.
C4_PositiveBatchSizeUsed ==
    /\ SearchIffNoBatchSize
    /\ (InFit /\ args.batch_size >= 1) =>
          /\ train_dataloader = args.batch_size
          /\ val_dataloader = args.batch_size
    /\ (InFit /\ args.batch_size = 0) =>
          /\ train_dataloader = 1
          /\ val_dataloader = 1

C4_Witness ==
    /\ InFit
    /\ args.batch_size = MaxBatch
    /\ "BatchSizeSearch" \notin Range(history)

\* the accumulation the claim states for batch size b and target o
ClaimedAccumulation(b, o) == Max(1, o \div b)

Configured == pc \in {"fit", "training", "validating", "cleanup"}

\* the part of C5 that does not depend on who built the trainer
StepSizeAndAbsence ==
    /\ (Configured /\ args.batch_size >= 1) =>
          train_dataloader <= args.batch_size
    /\ (Configured /\ args.optimal_batch_size = None) =>
          trainer_kwargs.accumulate_grad_batches = None

\* C5 (as claimed): with batch size b and a supplied optimal_batch_size
\* o >= 1 the trainer that runs has accumulate_grad_batches =
\* max(1, floor(o / b)); the per-step batch size does not exceed b; without
\* optimal_batch_size no accumulation is configured.
C5_AccumulationConfigured ==
    /\ StepSizeAndAbsence
    /\ (Configured /\ args.optimal_batch_size >= 1) =>
          trainer.accumulate_grad_batches =
              ClaimedAccumulation(self_batch_size, args.optimal_batch_size)

\* C5 (amended): the same, for the trainer finetune builds itself (no
\* trainer supplied by the caller).
C5_AccumulationOfBuiltTrainer ==
    /\ StepSizeAndAbsence
    /\ (Configured /\ args.optimal_batch_size >= 1
           /\ args.trainer.kind = "none") =>
          /\ trainer.accumulate_grad_batches =
                ClaimedAccumulation(self_batch_size, args.optimal_batch_size)
          /\ trainer_kwargs.accumulate_grad_batches =
                trainer.accumulate_grad_batches
    /\ (Configured /\ args.optimal_batch_size = None
           /\ args.trainer.kind = "none") =>
          trainer.accumulate_grad_batches = DEFAULT_ACCUMULATE

C5_Witness ==
    /\ InFit
    /\ args.trainer.kind = "none"
    /\ self_batch_size = 8
    /\ args.optimal_batch_size = OPTIMAL_BATCH_SIZE
    /\ trainer.accumulate_grad_batches = 16

\* the early-stopping behaviour C6 describes, for the calls selected by sel
StopsEarly(sel) ==
    /\ (sel /\ args.early_stopping
            /\ pc \in {"fit", "training", "validating", "cleanup"}) =>
          EarlyStopping \in trainer.callbacks
    /\ (sel /\ args.early_stopping /\ ~val_improved) =>
          /\ run_end = "EarlyStopped"
          /\ pc \in {"cleanup", "done"}

\* C6 (as claimed): with early_stopping enabled, whatever the other
\* arguments, the trainer that runs monitors val_loss with patience 1 and
\* the run ends EarlyStopped at the first validation cycle without
\* improvement.
C6_EarlyStoppingAlways == StopsEarly(TRUE)

\* C6 (amended): the same, when the caller supplies no trainer.
C6_EarlyStoppingOfBuiltTrainer == StopsEarly(args.trainer.kind = "none")

C6_Witness ==
    /\ args.trainer.kind = "none"
    /\ args.early_stopping
    /\ args.epochs = MaxEpochs
    /\ run_end = "EarlyStopped"
    /\ epoch = 1
    /\ outcome = "returned"

\* C10: TextVectorisationModel.finetune with lists of different lengths
\* ends with the assertion error, and nothing was encoded, split, probed or
\* trained.
C10_LengthMismatchFailsFirst ==
    (tv_args.text_pairs # tv_args.similarity_scores) =>
        /\ Ended
        /\ outcome = "raised"
        /\ error = "AssertionError"
        /\ encoded = 0
        /\ dataset_train = None
        /\ dataset_valid = None
        /\ history = <<>>
        /\ self_trainer = "none"
        /\ training = FALSE

C10_Witness ==
    /\ Ended
    /\ error = "AssertionError"
    /\ cuda_available
    /\ tv_args.text_pairs = MaxPairs
    /\ tv_args.similarity_scores = 1

\* --------------------------------------------------- claims on generate
Generated == g_pc = "returned"

\* the keys the claim lists as forcing sampling
SamplingKeys ==
    {"temperature", "top_k", "top_p", "repetition_penalty", "length_penalty",
     "num_beams", "num_return_sequences", "num_generations"}

\* C7: do_sample handed to the model is false when temperature is 0.0 (and
\* temperature is then not among the handed options); otherwise true when
\* any of the eight listed options is present and non-null; otherwise the
\* caller's do_sample, false by default.
C7_DoSampleResolution ==
    Generated =>
        IF g_kwargs["temperature"] = 0
          THEN g_do_sample = FALSE /\ g_handed["temperature"] = Absent
        ELSE IF \E k \in SamplingKeys : g_kwargs[k] # Absent /\ g_kwargs[k] # None
          THEN g_do_sample = TRUE
        ELSE g_do_sample = (g_kwargs["do_sample"] = 1)

C7_Witness ==
    /\ Generated
    /\ g_kwargs["temperature"] = 0
    /\ g_kwargs["top_k"] = 2
    /\ g_kwargs["do_sample"] = 1
    /\ g_do_sample = FALSE

\* the call that passes the same value under the name num_return_sequences
Twin(kw) ==
    [kw EXCEPT !["num_return_sequences"] = kw["num_generations"],
               !["num_generations"] = Absent]

\* what C8 says of a call that passed num_generations = N (and not
\* num_return_sequences), for the values N selected by sel
SameAsTwin(sel) ==
    /\ Generated => g_handed["num_generations"] = Absent
    /\ (Generated /\ g_kwargs["num_generations"] # Absent
            /\ g_kwargs["num_return_sequences"] = Absent
            /\ sel) =>
          /\ g_handed["num_return_sequences"] = g_kwargs["num_generations"]
          /\ g_handed = handed_kwargs(Twin(g_kwargs))
          /\ g_do_sample = do_sample(Twin(g_kwargs))

\* C8 (as claimed): for every value N, None included, the call with
\* num_generations=N hands the model what the call with
\* num_return_sequences=N hands it (same do_sample, num_return_sequences=N),
\* and num_generations is never handed to the model.
C8_RenameAnyValue == SameAsTwin(TRUE)

\* C8 (amended): the same for every N that is not None.
C8_RenameNonNull == SameAsTwin(g_kwargs["num_generations"] # None)

C8_Witness ==
    /\ Generated
    /\ g_kwargs["num_generations"] = MaxSequences
    /\ g_kwargs["num_return_sequences"] = Absent
    /\ g_handed["num_return_sequences"] = MaxSequences
    /\ g_do_sample = TRUE

\* the per-item result C9 describes for text t
ItemShape(r, t) ==
    IF g_handed["num_return_sequences"] \in {Absent, 1}
      THEN r = Str(t, 1)
      ELSE /\ r.kind = "list"
           /\ Len(r.items) >= 1
           /\ \A j \in DOMAIN r.items : r.items[j] = Str(t, j)

\* C9: a single string yields one per-item result, a list of k strings a
\* list of k per-item results in input order; a per-item result is a scalar
\* string when the resolved num_return_sequences is not set or is 1, and
\* the list of decoded candidates otherwise, whatever the input arity.
C9_ResultShape ==
    Generated =>
        IF g_text.is_list
          THEN /\ g_output.kind = "list"
               /\ Len(g_output.items) = Len(g_text.items)
               /\ \A i \in DOMAIN g_text.items :
                     ItemShape(g_output.items[i], g_text.items[i])
          ELSE ItemShape(g_output, g_text.items[1])

C9_Witness ==
    /\ Generated
    /\ g_text.is_list
    /\ Len(g_text.items) = MaxTexts
    /\ g_handed["num_return_sequences"] = MaxSequences
    /\ Len(g_output.items[MaxTexts].items) = MaxSequences

\* ------------------------------- claims on TextVectorisationModel.finetune
\* the finetune call was made through TextVectorisationModel.finetune
ViaTV == tv_args.text_pairs # None

\* C11 (as claimed): the job started by TextVectorisationModel.finetune runs
\* with the caller's validation_split, epochs, batch_size, early_stopping
\* and trainer: the split uses the supplied validation_split, the trainer
\* built is bounded by the supplied epochs, an explicit batch_size
\* suppresses the batch-size search, early_stopping=False leaves the
\* trainer without the early-stopping callback, and a supplied trainer is
\* the one that runs.
C11_SuppliedArgumentsUsed ==
    /\ (ViaTV /\ dataset_train # None) =>
          /\ dataset_train = len_train(encoded, tv_args.validation_split)
          /\ dataset_valid = len_valid(encoded, tv_args.validation_split)
    /\ (ViaTV /\ tv_args.batch_size # None) =>
          "BatchSizeSearch" \notin Range(history)
    /\ (ViaTV /\ Configured /\ tv_args.trainer.kind = "none") =>
          /\ trainer.max_epochs = tv_args.epochs
          /\ ~tv_args.early_stopping => EarlyStopping \notin trainer.callbacks
    /\ (ViaTV /\ Configured /\ tv_args.trainer.kind = "custom") =>
          trainer = tv_args.trainer

\* ---------------------------------------------------------------------
\* ClassificationModel.classify
\* ---------------------------------------------------------------------

\* longest list of labels, and longest list of texts, of a classify call
MaxLabels == 2

MaxClsTexts == 2

Labels == {"food", "weather"}

ClsTexts == 1 .. MaxClsTexts

SeqsUpTo(S, n) == UNION {[1 .. k -> S] : k \in 0 .. n}

LabelLists == SeqsUpTo(Labels, MaxLabels)

\* a single text with a list of labels, or a list of texts with a list of
\* lists of labels (of any length, the assert decides)
ClassifyInputs ==
    [text : [is_list : {FALSE}, items : [1 .. 1 -> ClsTexts]], labels : LabelLists]
        \cup
    [text : [is_list : {TRUE}, items : SeqsUpTo(ClsTexts, MaxClsTexts)],
     labels : SeqsUpTo(LabelLists, MaxClsTexts)]

\* one forward pass: the text is encoded with the hypothesis built from the
\* label, and the probability of entailment comes back
calculate_probability(text, label) == [text |-> text, hypothesis |-> label]

FirstKey(results, key) == CHOOSE i \in DOMAIN results : results[i].key = key

SetItem_Prepend(results, key, value) ==
    IF \E i \in DOMAIN results : results[i].key = key
    THEN [results EXCEPT ![FirstKey(results, key)].value = value]
    ELSE <<[key |-> key, value |-> value]>> \o results

\* results[key] = value on a dictionary, which keeps insertion order
SetItem(results, key, value) ==
    IF \E i \in DOMAIN results : results[i].key = key
    THEN [results EXCEPT ![FirstKey(results, key)].value = value]
    ELSE Append(results, [key |-> key, value |-> value])

RECURSIVE Score(_, _, _)
\* for label in labels: results[label] = self.calculate_probability(...)
Score(text, labels, results) ==
    IF labels = <<>>
    THEN results
    ELSE Score(text, Tail(labels),
               SetItem(results, Head(labels),
                       calculate_probability(text, Head(labels))))

\* the forward passes of that loop
Passes(text, labels) ==
    [j \in DOMAIN labels |-> calculate_probability(text, labels[j])]

RECURSIVE PassesOfAll(_, _)
\* the forward passes of the outer loop over zip(text, labels)
PassesOfAll(texts, labels) ==
    IF texts = <<>>
    THEN <<>>
    ELSE Passes(Head(texts), Head(labels)) \o PassesOfAll(Tail(texts), Tail(labels))

classify(text, labels) ==
    /\ c_pc = "call"
    /\ IF text.is_list
       THEN IF Len(text.items) # Len(labels)
            THEN /\ c_pc' = "raised"
                 /\ UNCHANGED <<c_output, c_passes>>
            ELSE /\ c_pc' = "returned"
                 /\ c_output' = [i \in DOMAIN text.items |->
                                    Score(text.items[i], labels[i], <<>>)]
                 /\ c_passes' = PassesOfAll(text.items, labels)
       ELSE /\ c_pc' = "returned"
            /\ c_output' = Score(text.items[1], labels, <<>>)
            /\ c_passes' = Passes(text.items[1], labels)
    /\ UNCHANGED <<c_text, c_labels>>
    /\ UNCHANGED <<ft_vars, gen_vars, task_vars>>

NextClassify == classify(c_text, c_labels)

\* no finetune call is in progress: the model is loaded and in eval mode
FinetuneIdle ==
    /\ cuda_available = TRUE
    /\ model_device = "cuda"
    /\ device = model_device
    /\ training = FALSE
    /\ self_batch_size = 1
    /\ dataset_train = None
    /\ dataset_valid = None
    /\ self_trainer = "none"
    /\ temp_trainer = FALSE
    /\ reclaimed = FALSE
    /\ pc = "idle"
    /\ args = NoArgs
    /\ pre_device = model_device
    /\ trainer_kwargs = EmptyKwargs
    /\ trainer = NoTrainer
    /\ epoch = 0
    /\ val_improved = TRUE
    /\ run_end = "none"
    /\ history = <<>>
    /\ outcome = "none"
    /\ error = "none"
    /\ tv_args = NoTVArgs
    /\ encoded = 0

\* generate has not been called
GenerateIdle ==
    /\ g_pc = "call"
    /\ g_text = NoText
    /\ g_kwargs = NoKwargs
    /\ g_do_sample = FALSE
    /\ g_handed = NoKwargs
    /\ g_output = NoOutput

\* the state in which classify is about to be called with some arguments
InitClassify ==
    /\ FinetuneIdle
    /\ GenerateIdle
    /\ TaskIdle
    /\ c_pc = "call"
    /\ \E inp \in ClassifyInputs :
          /\ c_text = inp.text
          /\ c_labels = inp.labels
    /\ c_output = <<>>
    /\ c_passes = <<>>

SpecClassify == InitClassify /\ [][NextClassify]_vars

\* position of the first occurrence of a label in a list of labels
FirstIn(labels, label) ==
    CHOOSE j \in DOMAIN labels :
        /\ labels[j] = label
        /\ \A k \in 1 .. (j - 1) : labels[k] # label

\* the mapping has exactly the labels as keys, in the order in which the
\* caller first gave them, each with the probability of its own pass on text
MappingOf(results, text, labels) ==
    /\ {results[i].key : i \in DOMAIN results} = Range(labels)
    /\ \A i, j \in DOMAIN results :
          i < j => FirstIn(labels, results[i].key) < FirstIn(labels, results[j].key)
    /\ \A i \in DOMAIN results :
          results[i].value = [text |-> text, hypothesis |-> results[i].key]

RECURSIVE LabelsBefore(_, _)
\* how many labels the lists before the i-th hold together
LabelsBefore(labels, i) ==
    IF i <= 1 THEN 0 ELSE LabelsBefore(labels, i - 1) + Len(labels[i - 1])

\* C12: classify returns a mapping whose keys are exactly the supplied
\* labels in the caller's order, each scored by its own forward pass on the
\* text; for a list of texts and an equally long list of label lists it
\* returns one such mapping per text, the i-th from the i-th text and the
\* i-th label list, in input order.
C12_ClassifyMapping ==
    c_pc = "returned" =>
        IF c_text.is_list
        THEN /\ Len(c_output) = Len(c_text.items)
             /\ \A i \in DOMAIN c_output :
                   MappingOf(c_output[i], c_text.items[i], c_labels[i])
             /\ Len(c_passes) = LabelsBefore(c_labels, Len(c_labels) + 1)
             /\ \A i \in DOMAIN c_labels : \A j \in DOMAIN c_labels[i] :
                   c_passes[LabelsBefore(c_labels, i) + j]
                       = [text |-> c_text.items[i], hypothesis |-> c_labels[i][j]]
        ELSE /\ MappingOf(c_output, c_text.items[1], c_labels)
             /\ Len(c_passes) = Len(c_labels)
             /\ \A j \in DOMAIN c_labels :
                   c_passes[j] = [text |-> c_text.items[1], hypothesis |-> c_labels[j]]

\* two different texts were classified, the first against two labels given
\* in an order of the caller's, the second against another list
C12_Witness ==
    /\ c_pc = "returned"
    /\ c_text.is_list
    /\ Len(c_text.items) = 2
    /\ c_text.items[1] # c_text.items[2]
    /\ c_labels[1] = <<"weather", "food">>
    /\ c_labels[2] = <<"food">>
    /\ Len(c_output) = 2

\* ---------------------------------------------------------------------
\* TextGeneration.finetune (tasks/text_generation.py)
\* ---------------------------------------------------------------------

FINETUNABLE_MODELS == <<"t5", "t5-base-qa-summary-emotion">>

\* the model object of the task: one of the local models or an object of the
\* caller's; its finetune is BaseModel's or an override of a subclass
TaskModels ==
    [name : {"gpt2", "t5-base-qa-summary-emotion", "t5", "custom"},
     finetune : {"BaseModel", "override"}]

ParamKeys == {"input_text", "output_text"}

TaskKwargs == [validation_split : ValidationSplits, epochs : 1 .. MaxEpochs]

RECURSIVE Join(_, _)
\* sep.join(xs)
Join(sep, xs) ==
    IF xs = <<>> THEN ""
    ELSE IF Len(xs) = 1 THEN xs[1]
    ELSE xs[1] \o sep \o Join(sep, Tail(xs))

UnsupportedMessage_NoList == "This model does not support finetuning"

\* the message of the error raised in place of the model's NotImplementedError
UnsupportedMessage ==
    "This model does not support finetuning, try: " \o Join(", ", FINETUNABLE_MODELS)

\* what calling self.model.finetune can do: BaseModel.finetune raises at once;
\* an override returns after training, or raises NotImplementedError from a
\* step its class lacks, or raises another error before training (no GPU)
ModelFinetune(model) ==
    IF model.finetune = "BaseModel"
    THEN {[error |-> "NotImplementedError",
           message |-> "This model does not support finetuning", trained |-> FALSE]}
    ELSE {[error |-> "none", message |-> "", trained |-> TRUE],
          [error |-> "NotImplementedError",
           message |-> "training_step must be implemented", trained |-> TRUE],
          [error |-> "Exception",
           message |-> "You need a cuda capable (Nvidia) GPU for finetuning",
           trained |-> FALSE]}

TextGeneration_finetune(keys, kwargs) ==
    /\ k_pc = "call"
    /\ IF "input_text" \notin keys
       THEN /\ k_pc' = "returned"
            /\ k_result' = [k_result EXCEPT
                   !.printed = "Params requires key: 'input_text' (list of inputs)"]
       ELSE IF "output_text" \notin keys
       THEN /\ k_pc' = "returned"
            /\ k_result' = [k_result EXCEPT
                   !.printed = "Params requires key: 'output_text' (list of outputs)"]
       ELSE \E r \in ModelFinetune(k_model) :
               IF r.error = "none"
               THEN /\ k_pc' = "returned"
                    /\ k_result' = [k_result EXCEPT !.value = "model result",
                                       !.delegated = TRUE, !.trained = r.trained,
                           !.forwarded = <<keys, "text-generation", kwargs>>]
               ELSE /\ k_pc' = "raised"
                    /\ k_result' = [k_result EXCEPT
                           !.error = r.error,
                           !.message = IF r.error = "NotImplementedError"
                                       THEN UnsupportedMessage ELSE r.message,
                           !.delegated = TRUE, !.trained = r.trained,
                           !.forwarded = <<keys, "text-generation", kwargs>>]
    /\ UNCHANGED <<k_model, k_params, k_kwargs>>
    /\ UNCHANGED <<ft_vars, gen_vars, cls_vars>>

NextTask == TextGeneration_finetune(k_params, k_kwargs)

\* the state in which the task's finetune is about to be called
InitTask ==
    /\ FinetuneIdle
    /\ GenerateIdle
    /\ ClassifyIdle
    /\ k_pc = "call"
    /\ k_model \in TaskModels
    /\ k_params \in SUBSET ParamKeys
    /\ k_kwargs \in TaskKwargs
    /\ k_result = [value |-> "None", printed |-> "", error |-> "none",
                   message |-> "", delegated |-> FALSE, trained |-> FALSE,
                   forwarded |-> <<>>]

SpecTask == InitTask /\ [][NextTask]_vars

\* the call ended with the unsupported-operation error that lists the
\* finetunable variants, and nothing was trained
FailedAsUnsupported ==
    /\ k_pc = "raised"
    /\ k_result.error = "NotImplementedError"
    /\ k_result.message
          = "This model does not support finetuning, try: t5, t5-base-qa-summary-emotion"
    /\ ~k_result.trained

\* C13 (as claimed): whenever the task's finetune is called on a model that
\* does not implement finetuning, the call fails with the unsupported-operation
\* error listing t5 and t5-base-qa-summary-emotion, and nothing is trained.
C13_UnsupportedAlwaysFails ==
    (k_pc # "call" /\ k_model.finetune = "BaseModel") => FailedAsUnsupported

\* C13 (amended): on a model that does not implement finetuning, a call whose
\* params hold both 'input_text' and 'output_text' fails with the
\* unsupported-operation error listing t5 and t5-base-qa-summary-emotion and
\* trains nothing; a call whose params lack one of the keys prints which key
\* is required and returns None without an error, without asking the model
\* and without training.
C13_UnsupportedFailsGivenBothKeys ==
    (k_pc # "call" /\ k_model.finetune = "BaseModel") =>
        IF ParamKeys \subseteq k_params
        THEN FailedAsUnsupported
        ELSE /\ k_pc = "returned"
             /\ k_result.value = "None"
             /\ k_result.error = "none"
             /\ k_result.printed # ""
             /\ ~k_result.delegated
             /\ ~k_result.trained

\* gpt2, which inherits BaseModel.finetune, was asked to finetune on
\* well-formed params and the call raised
C13_Witness ==
    /\ k_pc = "raised"
    /\ k_model = [name |-> "gpt2", finetune |-> "BaseModel"]
    /\ k_params = ParamKeys
    /\ k_result.delegated
    /\ k_result.error = "NotImplementedError"

\* ---------------------------------------------------------------------
\* the Splitting phase on its own, for larger datasets and more splits
\* ---------------------------------------------------------------------

\* largest dataset whose split is examined
MaxExamples == 10

\* finetune(dataset, validation_split=p/100) with the other arguments defaulted
SplitArgs ==
    {[DefaultArgs(n) EXCEPT !.validation_split = p] :
        n \in 0 .. MaxExamples, p \in SplitPercents}

InitSplit ==
    /\ FinetuneIdle
    /\ GenerateIdle
    /\ ClassifyIdle
    /\ TaskIdle

NextSplit ==
    \/ pc = "idle" /\ \E a \in SplitArgs : Finetune(a)
    \/ Split

SpecSplit == InitSplit /\ [][NextSplit]_vars

\* C14 (as claimed): after the Splitting phase on a dataset of n examples the
\* training partition has floor(n * (1 - validation_split)) examples and the
\* validation partition the remaining n minus that many; both sizes are
\* non-negative, they sum to n, and the validation partition is non-empty
\* whenever n >= 1.
C14_SplitSizes ==
    dataset_train # None =>
        /\ dataset_train = (args.dataset * (100 - args.validation_split)) \div 100
        /\ dataset_valid = args.dataset - dataset_train
        /\ dataset_train >= 0
        /\ dataset_valid >= 0
        /\ dataset_train + dataset_valid = args.dataset
        /\ args.dataset >= 1 => dataset_valid >= 1

\* what does hold of the two sizes whatever the rounding of the product
SplitSizesConserved ==
    dataset_train # None =>
        /\ dataset_train >= 0
        /\ dataset_valid >= 0
        /\ dataset_train + dataset_valid = args.dataset
        /\ args.dataset >= 1 => dataset_valid >= 1
        /\ dataset_train \in {len_train_Exact(args.dataset, args.validation_split) - 1,
                              len_train_Exact(args.dataset, args.validation_split)}

============================================================================
